---- MODULE Spec2Model ----
(***************************************************************************)
(* Model of glucogard/ai_engine/main.py: the module import that loads the  *)
(* model bundle, and the /predict-risk handler predict_risk.               *)
(*                                                                         *)
(* Numbers.  A float field holds an integer count of 1e-5 units, so that   *)
(* 18.5 is 1850000 and 18.50001 is 1850001; every bin edge of the source   *)
(* (0, 18.5, 25, 30, 45, 60, 100) is exact in binary floating point, so    *)
(* comparisons against the edges are exact.  An int field holds the        *)
(* integer itself.  A probability is an integer number of percent.         *)
(***************************************************************************)
EXTENDS Integers, Sequences, FiniteSets, TLC

\* Grid steps taken on each side of every bin edge when inputs are drawn.
GridPad == 1
\* Requests the server accepts in one run.
MaxRequests == 3

(***************************************************************************)
(* DiabetesInput and request validation                                    *)
(***************************************************************************)

\* DiabetesInput's fields in declaration order (the key order of data.dict()).
Fields ==
    <<"age", "bmi", "weight", "height", "systolic_bp", "family_history",
      "physical_activity", "diet_quality", "location", "smoking">>

FloatFields == {"age", "bmi", "weight", "height", "systolic_bp", "diet_quality"}

IntFields == {"family_history", "physical_activity", "location", "smoking"}

FieldSet == {Fields[i] : i \in 1..Len(Fields)}

\* A JSON value of a request body: a number, a string (its characters) or
\* nothing at all (the key is absent).
JNum(n) == [t |-> "num", v |-> n, s |-> << >>]
JStr(chars) == [t |-> "str", v |-> 0, s |-> chars]
JAbsent == [t |-> "absent", v |-> 0, s |-> << >>]

Digits == <<"0", "1", "2", "3", "4", "5", "6", "7", "8", "9">>

IsDigit(c) == \E i \in 1..10 : Digits[i] = c

DigitVal(c) == (CHOOSE i \in 1..10 : Digits[i] = c) - 1

\* Whether the characters are an optional minus sign and then one or more digits.
IsNumericText(chars) ==
    LET body == IF Len(chars) > 0 /\ chars[1] = "-" THEN Tail(chars) ELSE chars
    IN  /\ Len(body) > 0
        /\ \A i \in 1..Len(body) : IsDigit(body[i])

RECURSIVE DigitsValue(_)
DigitsValue(chars) ==
    IF Len(chars) = 0 THEN 0
    ELSE 10 * DigitsValue(SubSeq(chars, 1, Len(chars) - 1)) + DigitVal(chars[Len(chars)])

\* The integer the characters spell.
ParseInt(chars) ==
    IF chars[1] = "-" THEN 0 - DigitsValue(Tail(chars)) ELSE DigitsValue(chars)

\* Coercion of a JSON value to float: [ok, v] with v in 1e-5 units.
coerce_float(j) ==
    CASE j.t = "num" -> [ok |-> TRUE, v |-> j.v]
      [] j.t = "str" ->
            IF IsNumericText(j.s) THEN [ok |-> TRUE, v |-> 100000 * ParseInt(j.s)]
            ELSE [ok |-> FALSE, v |-> 0]
      [] OTHER -> [ok |-> FALSE, v |-> 0]

\* Coercion of a JSON value to int: [ok, v].
coerce_int(j) ==
    CASE j.t = "num" -> [ok |-> TRUE, v |-> j.v]
      [] j.t = "str" ->
            IF IsNumericText(j.s) THEN [ok |-> TRUE, v |-> ParseInt(j.s)]
            ELSE [ok |-> FALSE, v |-> 0]
      [] OTHER -> [ok |-> FALSE, v |-> 0]

coerce(f, j) == IF f \in FloatFields THEN coerce_float(j) ELSE coerce_int(j)

\* A handler taking the raw body as a dict: nothing is refused.
DiabetesInputUnchecked(body) ==
    [ok |-> TRUE, errors |-> {}, data |-> [f \in FieldSet |-> coerce(f, body[f]).v]]

\* Construction of DiabetesInput from a body: the validated fields, or the set
\* of fields in error.  Types only; no range is checked.
DiabetesInput(body) ==
    LET bad == {f \in FieldSet : ~coerce(f, body[f]).ok}
    IN  [ok |-> bad = {},
         errors |-> bad,
         data |-> [f \in FieldSet |-> coerce(f, body[f]).v]]

(***************************************************************************)
(* Feature derivation: pd.cut with right-closed bins, then -1 for no bin   *)
(***************************************************************************)

NA == -99

\* searchsorted with side='right' (what pd.cut uses when right=False).
searchsorted_right(bins, x) == Cardinality({i \in 1..Len(bins) : bins[i] <= x})

\* numpy searchsorted(bins, x, side='left'), which pd.cut uses for right=True:
\* how many edges are below x.
searchsorted(bins, x) == Cardinality({i \in 1..Len(bins) : bins[i] < x})

\* pd.cut(x, bins, labels) with the defaults right=True, include_lowest=False:
\* the label of the bin holding x, NA when x is in no bin.
cut(x, bins, labels) ==
    LET ids == searchsorted(bins, x)
    IN  IF ids = 0 \/ ids = Len(bins) THEN NA ELSE labels[ids]

\* .cat.add_categories(-1).fillna(-1).astype(int)
fillna(c) == IF c = NA THEN -1 ELSE c

bmi_bins == <<0, 1850000, 2500000, 3000000, 10000000>>

age_bins == <<0, 3000000, 4500000, 6000000, 10000000>>

bin_labels == <<0, 1, 2, 3>>

bmi_category(bmi) == fillna(cut(bmi, bmi_bins, bin_labels))

\* The age binning done with the BMI edges.
age_group_bmi_edges(age) == fillna(cut(age, bmi_bins, bin_labels))

age_group(age) == fillna(cut(age, age_bins, bin_labels))

Columns == FieldSet \cup {"bmi_category", "age_group"}

\* patient_data after lines 31-43: one row, the ten fields and the two
\* derived columns.
DeriveFrame(data) ==
    [c \in Columns |->
        CASE c = "bmi_category" -> bmi_category(data["bmi"])
          [] c = "age_group" -> age_group(data["age"])
          [] OTHER -> data[c]]

\* A column order with age and bmi exchanged.
feature_columns_swapped ==
    <<"bmi", "age", "weight", "height", "systolic_bp", "family_history",
      "physical_activity", "diet_quality", "location", "smoking",
      "bmi_category", "age_group">>

feature_columns ==
    <<"age", "bmi", "weight", "height", "systolic_bp", "family_history",
      "physical_activity", "diet_quality", "location", "smoking",
      "bmi_category", "age_group">>

\* patient_data[feature_columns]: the row handed to the scaler.
SelectColumns(frame, cols) == [i \in 1..Len(cols) |-> frame[cols[i]]]

(***************************************************************************)
(* The model bundle (diabetes_model.pkl) and its two objects               *)
(***************************************************************************)

NoScaler == [n_features |-> 0, shift |-> 0]

NoModel == [classes |-> << >>, predict_raises |-> TRUE, proba_raises |-> TRUE]

NoBundle == [keys |-> {}, scaler |-> NoScaler, best_model |-> NoModel]

\* A scaler fitted on n columns; transform is x - shift on every column.
Scaler(n) == [n_features |-> n, shift |-> 1]

\* A classifier whose classes_ are the given labels.
Classifier(classes) ==
    [classes |-> classes, predict_raises |-> FALSE, proba_raises |-> FALSE]

Bundle(keys, sc, clf) == [keys |-> keys, scaler |-> sc, best_model |-> clf]

BothKeys == {"best_model", "scaler"}

FiveClasses == <<0, 1, 2, 3, 4>>

\* What may lie at model_path: no file, an unreadable file, or a bundle.
Artifacts ==
    { [file |-> "missing", bundle |-> NoBundle],
      [file |-> "corrupt", bundle |-> NoBundle],
      [file |-> "ok", bundle |-> Bundle({"scaler"}, Scaler(12), Classifier(FiveClasses))],
      [file |-> "ok", bundle |-> Bundle({"best_model"}, Scaler(12), Classifier(FiveClasses))],
      [file |-> "ok", bundle |-> Bundle(BothKeys, Scaler(12), Classifier(FiveClasses))],
      [file |-> "ok", bundle |-> Bundle(BothKeys, Scaler(10), Classifier(FiveClasses))],
      [file |-> "ok", bundle |-> Bundle(BothKeys, Scaler(12), Classifier(<<-1, 0, 1, 2, 3>>))],
      [file |-> "ok", bundle |-> Bundle(BothKeys, Scaler(12), Classifier(<<0, 1, 2, 3, 4, 5>>))],
      [file |-> "ok", bundle |-> Bundle(BothKeys, Scaler(12), Classifier(<<0, 1, 2>>))],
      [file |-> "ok",
       bundle |-> Bundle(BothKeys, Scaler(12),
                         [Classifier(FiveClasses) EXCEPT !.predict_raises = TRUE])],
      [file |-> "ok",
       bundle |-> Bundle(BothKeys, Scaler(12),
                         [Classifier(FiveClasses) EXCEPT !.proba_raises = TRUE])] }

\* joblib.load(model_path): the bundle, or an exception.
joblib_load(a) ==
    IF a.file = "ok" THEN [ok |-> TRUE, v |-> a.bundle] ELSE [ok |-> FALSE, v |-> NoBundle]

\* A lookup that never fails, as model_components.get(key) would be.
HasKeyLenient(b, key) == TRUE

\* Whether model_components[key] finds the key (a KeyError otherwise).
HasKey(b, key) == key \in b.keys

\* scaler.transform(X): an error when X is not as wide as the fit.
transform(sc, X) ==
    IF Len(X) = sc.n_features
    THEN [ok |-> TRUE, v |-> [i \in 1..Len(X) |-> X[i] - sc.shift]]
    ELSE [ok |-> FALSE, v |-> << >>]

\* The position in classes_ the classifier decides on for a scaled row.
Decision(clf, scaled) ==
    ((scaled[6] + scaled[11] + scaled[12] + 3) % Len(clf.classes)) + 1

\* model.predict(scaled)[0]
predict(clf, scaled) ==
    IF clf.predict_raises THEN [ok |-> FALSE, v |-> 0]
    ELSE [ok |-> TRUE, v |-> clf.classes[Decision(clf, scaled)]]

\* model.predict_proba(scaled)[0]: one value per class, in percent, summing
\* to 100, largest at the decided class and different at every position.
predict_proba(clf, scaled) ==
    LET n == Len(clf.classes)
        d == Decision(clf, scaled)
    IN  IF clf.proba_raises THEN [ok |-> FALSE, v |-> << >>]
        ELSE [ok |-> TRUE,
              v |-> [i \in 1..n |-> IF i = d THEN 100 - n * (n + 1) + 2 * d ELSE 2 * i]]

(***************************************************************************)
(* Response mapping                                                        *)
(***************************************************************************)

risk_category_keys == <<"non-diabetic", "low", "moderate", "high", "critical">>

risk_category_display ==
    <<"Non-diabetic", "Low Risk", "Moderate Risk", "High Risk", "Critical Risk">>

\* Python list indexing lst[i]: positions 0..n-1, and -n..-1 count from the
\* end; anything else is an IndexError.
PyIndex(lst, i) ==
    IF 0 <= i /\ i < Len(lst) THEN [ok |-> TRUE, v |-> lst[i + 1]]
    ELSE IF 0 - Len(lst) <= i /\ i < 0 THEN [ok |-> TRUE, v |-> lst[Len(lst) + i + 1]]
    ELSE [ok |-> FALSE, v |-> ""]

NoProbabilities == [l \in {} |-> 0]

NoResult ==
    [kind |-> "none", exc |-> "", risk_category |-> "", risk_level |-> 0,
     probabilities |-> NoProbabilities]

\* The request never entered predict_risk: the body did not validate.
ValidationError == [NoResult EXCEPT !.kind = "validation_error", !.exc = "ValidationError"]

\* An exception caught inside predict_risk and turned into a default answer.
Swallowed(exc) ==
    [NoResult EXCEPT !.kind = "success", !.risk_category = risk_category_keys[1]]

\* An exception left predict_risk: nothing in lines 30-63 catches it.
Raised(exc) == [NoResult EXCEPT !.kind = "internal_error", !.exc = exc]

\* The dict comprehension of line 62 over enumerate(probability).
ProbabilityDict(probability) ==
    [l \in {risk_category_display[i] : i \in 1..Len(probability)} |->
        probability[CHOOSE i \in 1..Len(probability) : risk_category_display[i] = l]]

\* The mapping with only the predicted class in it.
ResponseTopOnly(prediction, probability) ==
    IF ~PyIndex(risk_category_keys, prediction).ok
       \/ ~PyIndex(risk_category_display, prediction).ok
       \/ ~PyIndex(probability, prediction).ok
    THEN Raised("IndexError")
    ELSE [kind |-> "success", exc |-> "",
          risk_category |-> PyIndex(risk_category_keys, prediction).v,
          risk_level |-> prediction,
          probabilities |->
              [l \in {PyIndex(risk_category_display, prediction).v} |->
                  PyIndex(probability, prediction).v]]

\* Lines 56-63: the returned dict, or the IndexError of a list lookup.
Response(prediction, probability) ==
    IF ~PyIndex(risk_category_keys, prediction).ok
       \/ Len(probability) > Len(risk_category_display)
    THEN Raised("IndexError")
    ELSE [kind |-> "success", exc |-> "",
          risk_category |-> PyIndex(risk_category_keys, prediction).v,
          risk_level |-> prediction,
          probabilities |-> ProbabilityDict(probability)]

\* predict_risk as one function of the loaded objects and the request body.
PredictRisk(clf, sc, body) ==
    LET inp == DiabetesInput(body)
        X == SelectColumns(DeriveFrame(inp.data), feature_columns)
        scaled == transform(sc, X)
        prediction == predict(clf, scaled.v)
        probability == predict_proba(clf, scaled.v)
    IN  IF ~inp.ok THEN ValidationError
        ELSE IF ~scaled.ok THEN Raised("ValueError")
        ELSE IF ~prediction.ok THEN Raised("PredictError")
        ELSE IF ~probability.ok THEN Raised("AttributeError")
        ELSE Response(prediction.v, probability.v)

(***************************************************************************)
(* Request bodies                                                          *)
(***************************************************************************)

\* The eight fields that feed no derived column: an ordinary patient, and one
\* with out-of-domain values (a negative height, a negative weight).
OtherFields ==
    { [weight |-> 7000000, height |-> 17000000, systolic_bp |-> 12000000,
       family_history |-> 1, physical_activity |-> 1, diet_quality |-> 70000,
       location |-> 0, smoking |-> 0],
      [weight |-> -100000, height |-> -17000000, systolic_bp |-> 0,
       family_history |-> 0, physical_activity |-> 7, diet_quality |-> -70000,
       location |-> 3, smoking |-> 1] }

Patient(age, bmi, o) ==
    [f \in FieldSet |-> CASE f = "age" -> age [] f = "bmi" -> bmi [] OTHER -> o[f]]

\* The JSON body that carries every field of a patient as a number.
Body(p) == [f \in FieldSet |-> JNum(p[f])]

Edges(bins) == {bins[i] : i \in 1..Len(bins)}

\* Every value within GridPad steps of 1e-5 of a bin edge, and 24.9 and 45.5.
Grid(bins) ==
    {e + k : e \in Edges(bins), k \in (0 - GridPad)..GridPad} \cup {2490000, 4550000}

GridBodies ==
    {Body(Patient(a, b, o)) : a \in Grid(age_bins), b \in Grid(bmi_bins), o \in OtherFields}

Typical == CHOOSE o \in OtherFields : o.height > 0

\* Bodies the validator refuses, and one it coerces ("45" for age).
OddBodies ==
    LET base == Body(Patient(4500000, 2490000, Typical))
    IN  { [base EXCEPT !["age"] = JStr(<<"a", "b", "c">>)],
          [base EXCEPT !["bmi"] = JAbsent],
          [base EXCEPT !["smoking"] = JStr(<<"-">>)],
          [base EXCEPT !["location"] = JStr(<< >>), !["height"] = JAbsent],
          [base EXCEPT !["age"] = JStr(<<"4", "5">>)],
          [base EXCEPT !["family_history"] = JStr(<<"-", "1">>)] }

\* The bodies sent while two requests are in flight.
SmallBodies ==
    {Body(Patient(a, b, o)) :
        a \in {3000000, 6000001}, b \in {1850000, 10000001}, o \in {Typical}}
    \cup OddBodies

(***************************************************************************)
(* State                                                                   *)
(***************************************************************************)

VARIABLES
    artifact,          \* what lies at model_path
    proc,              \* where the import of main.py stands
    model_components,  \* module global, line 8
    model,             \* module global, line 9
    scaler,            \* module global, line 10
    req,               \* the locals of each call of predict_risk in flight
    accepted           \* requests the server has accepted

vars == <<artifact, proc, model_components, model, scaler, req, accepted>>

Slots == {1, 2}

NoBody == [f \in FieldSet |-> JAbsent]

NoData == [f \in FieldSet |-> 0]

NoFrame == [c \in Columns |-> 0]

Idle ==
    [pc |-> "idle", body |-> NoBody, data |-> NoData, patient_data |-> NoFrame,
     X_patient |-> << >>, scaled_features |-> << >>, prediction |-> 0,
     probability |-> << >>, result |-> NoResult, calls |-> {}]

\* The X_patient of the lowest-numbered call that has one: what every call
\* would read were X_patient a module global instead of a local.
LocalsSharedX(r, s) ==
    LET live == {t \in Slots : Len(r[t].X_patient) > 0}
        first == CHOOSE t \in live : \A u \in live : t <= u
    IN  IF live = {} THEN r[s] ELSE [r[s] EXCEPT !.X_patient = r[first].X_patient]

\* The locals of the call in slot s: each call of predict_risk has its own.
Locals(r, s) == r[s]

(***************************************************************************)
(* Import of main.py                                                       *)
(***************************************************************************)

\* Line 8: model_components = joblib.load(model_path)
LoadBundle ==
    /\ proc = "load"
    /\ LET l == joblib_load(artifact)
       IN  IF l.ok
           THEN /\ model_components' = l.v
                /\ proc' = "bind_model"
           ELSE /\ model_components' = model_components
                /\ proc' = "failed"
    /\ UNCHANGED <<artifact, model, scaler, req, accepted>>

\* Line 9: model = model_components["best_model"]
BindModel ==
    /\ proc = "bind_model"
    /\ IF HasKey(model_components, "best_model")
       THEN /\ model' = model_components.best_model
            /\ proc' = "bind_scaler"
       ELSE /\ model' = model
            /\ proc' = "failed"
    /\ UNCHANGED <<artifact, model_components, scaler, req, accepted>>

\* Line 10: scaler = model_components["scaler"]
BindScaler ==
    /\ proc = "bind_scaler"
    /\ IF HasKey(model_components, "scaler")
       THEN /\ scaler' = model_components.scaler
            /\ proc' = "create_app"
       ELSE /\ scaler' = scaler
            /\ proc' = "failed"
    /\ UNCHANGED <<artifact, model_components, model, req, accepted>>

\* Lines 27-30: app = FastAPI() and the route; the server then serves.
CreateApp ==
    /\ proc = "create_app"
    /\ proc' = "serving"
    /\ UNCHANGED <<artifact, model_components, model, scaler, req, accepted>>

(***************************************************************************)
(* One request                                                             *)
(***************************************************************************)

Finish(s, loc, res) == req' = [req EXCEPT ![s] = [loc EXCEPT !.pc = "done", !.result = res]]

\* A POST /predict-risk arrives at the running server.
Receive(s, body) ==
    /\ proc = "serving"
    /\ accepted < MaxRequests
    /\ req[s].pc = "idle"
    /\ req' = [req EXCEPT ![s] = [Idle EXCEPT !.pc = "received", !.body = body]]
    /\ accepted' = accepted + 1
    /\ UNCHANGED <<artifact, proc, model_components, model, scaler>>

\* Lines 15-25 and 30: the body becomes a DiabetesInput, or the request ends
\* with a validation error before predict_risk is entered.
Validate(s) ==
    /\ req[s].pc = "received"
    /\ LET loc == Locals(req, s)
           inp == DiabetesInput(loc.body)
       IN  IF inp.ok
           THEN req' = [req EXCEPT ![s] = [loc EXCEPT !.pc = "derive", !.data = inp.data]]
           ELSE Finish(s, loc, ValidationError)
    /\ UNCHANGED <<artifact, proc, model_components, model, scaler, accepted>>

\* Lines 31-43: the frame and its two derived columns.
Derive(s) ==
    /\ req[s].pc = "derive"
    /\ LET loc == Locals(req, s)
       IN  req' = [req EXCEPT ![s] =
                     [loc EXCEPT !.pc = "select",
                                 !.patient_data = DeriveFrame(loc.data),
                                 !.calls = @ \cup {"derive"}]]
    /\ UNCHANGED <<artifact, proc, model_components, model, scaler, accepted>>

\* Lines 46-49: X_patient = patient_data[feature_columns]
Select(s) ==
    /\ req[s].pc = "select"
    /\ LET loc == Locals(req, s)
       IN  req' = [req EXCEPT ![s] =
                     [loc EXCEPT !.pc = "transform",
                                 !.X_patient = SelectColumns(loc.patient_data, feature_columns),
                                 !.calls = @ \cup {"select"}]]
    /\ UNCHANGED <<artifact, proc, model_components, model, scaler, accepted>>

\* Line 52: scaled_features = scaler.transform(X_patient)
Transform(s) ==
    /\ req[s].pc = "transform"
    /\ LET loc == [Locals(req, s) EXCEPT !.calls = @ \cup {"transform"}]
           t == transform(scaler, loc.X_patient)
       IN  IF t.ok
           THEN req' = [req EXCEPT ![s] = [loc EXCEPT !.pc = "predict", !.scaled_features = t.v]]
           ELSE Finish(s, loc, Raised("ValueError"))
    /\ UNCHANGED <<artifact, proc, model_components, model, scaler, accepted>>

\* Line 53: prediction = model.predict(scaled_features)[0]
Predict(s) ==
    /\ req[s].pc = "predict"
    /\ LET loc == [Locals(req, s) EXCEPT !.calls = @ \cup {"predict"}]
           p == predict(model, loc.scaled_features)
       IN  IF p.ok
           THEN req' = [req EXCEPT ![s] = [loc EXCEPT !.pc = "predict_proba", !.prediction = p.v]]
           ELSE Finish(s, loc, Raised("PredictError"))
    /\ UNCHANGED <<artifact, proc, model_components, model, scaler, accepted>>

\* Line 54: probability = model.predict_proba(scaled_features)[0]
PredictProba(s) ==
    /\ req[s].pc = "predict_proba"
    /\ LET loc == [Locals(req, s) EXCEPT !.calls = @ \cup {"predict_proba"}]
           p == predict_proba(model, loc.scaled_features)
       IN  IF p.ok
           THEN req' = [req EXCEPT ![s] = [loc EXCEPT !.pc = "respond", !.probability = p.v]]
           ELSE Finish(s, loc, Raised("AttributeError"))
    /\ UNCHANGED <<artifact, proc, model_components, model, scaler, accepted>>

\* Lines 56-63: the response dict is built and returned.
Respond(s) ==
    /\ req[s].pc = "respond"
    /\ LET loc == [Locals(req, s) EXCEPT !.calls = @ \cup {"respond"}]
       IN  Finish(s, loc, Response(loc.prediction, loc.probability))
    /\ UNCHANGED <<artifact, proc, model_components, model, scaler, accepted>>

\* The response is sent and the call's locals are gone.
Close(s) ==
    /\ req[s].pc = "done"
    /\ req' = [req EXCEPT ![s] = Idle]
    /\ UNCHANGED <<artifact, proc, model_components, model, scaler, accepted>>

(***************************************************************************)
(* Specifications                                                          *)
(***************************************************************************)

Init ==
    /\ artifact \in Artifacts
    /\ proc = "load"
    /\ model_components = NoBundle
    /\ model = NoModel
    /\ scaler = NoScaler
    /\ req = [s \in Slots |-> Idle]
    /\ accepted = 0

Next ==
    \/ LoadBundle
    \/ BindModel
    \/ BindScaler
    \/ CreateApp
    \/ \E s \in Slots, body \in SmallBodies : Receive(s, body)
    \/ \E s \in Slots : Validate(s)
    \/ \E s \in Slots : Derive(s)
    \/ \E s \in Slots : Select(s)
    \/ \E s \in Slots : Transform(s)
    \/ \E s \in Slots : Predict(s)
    \/ \E s \in Slots : PredictProba(s)
    \/ \E s \in Slots : Respond(s)
    \/ \E s \in Slots : Close(s)

Spec == Init /\ [][Next]_vars

\* A server that came up, with one request just received: its body drawn
\* from the whole grid around the bin edges.
Servable == {a \in Artifacts : a.file = "ok" /\ a.bundle.keys = BothKeys}

InitOne ==
    /\ artifact \in Servable
    /\ proc = "serving"
    /\ model_components = artifact.bundle
    /\ model = artifact.bundle.best_model
    /\ scaler = artifact.bundle.scaler
    /\ \E body \in GridBodies \cup OddBodies :
          req = [s \in Slots |-> IF s = 1 THEN [Idle EXCEPT !.pc = "received", !.body = body]
                                 ELSE Idle]
    /\ accepted = 1

NextOne ==
    \/ Validate(1)
    \/ Derive(1)
    \/ Select(1)
    \/ Transform(1)
    \/ Predict(1)
    \/ PredictProba(1)
    \/ Respond(1)

SpecOne == InitOne /\ [][NextOne]_vars

(***************************************************************************)
(* Properties                                                              *)
(***************************************************************************)

Derived(s) == "derive" \in req[s].calls

Selected(s) == "select" \in req[s].calls

DisplayLabels == {risk_category_display[i] : i \in 1..Len(risk_category_display)}

\* C1: once the frame of a request is derived, bmi_category is the right-closed
\* bin of the validated bmi: (0,18.5] is 0, (18.5,25] is 1, (25,30] is 2,
\* (30,100] is 3, and bmi <= 0 or bmi > 100 is -1; deriving raises nothing.
C1_BmiRightClosed ==
    \A s \in Slots :
        Derived(s) =>
            LET b == req[s].data["bmi"]
                c == req[s].patient_data["bmi_category"]
            IN  /\ (0 < b /\ b <= 1850000) => c = 0
                /\ (1850000 < b /\ b <= 2500000) => c = 1
                /\ (2500000 < b /\ b <= 3000000) => c = 2
                /\ (3000000 < b /\ b <= 10000000) => c = 3
                /\ (b <= 0 \/ b > 10000000) => c = -1
                /\ req[s].result.kind # "validation_error"
                /\ req[s].pc = "select" => req[s].result.kind = "none"

\* A request whose bmi is one step above 18.5 has been binned into bucket 1.
C1_Witness ==
    \E s \in Slots :
        /\ Derived(s)
        /\ req[s].data["bmi"] = 1850001
        /\ req[s].patient_data["bmi_category"] = 1

\* C2: once the frame of a request is derived, age_group is the right-closed
\* bin of the validated age: (0,30] is 0, (30,45] is 1, (45,60] is 2,
\* (60,100] is 3, and any age outside (0,100] is -1; deriving raises nothing.
C2_AgeRightClosed ==
    \A s \in Slots :
        Derived(s) =>
            LET a == req[s].data["age"]
                g == req[s].patient_data["age_group"]
            IN  /\ (0 < a /\ a <= 3000000) => g = 0
                /\ (3000000 < a /\ a <= 4500000) => g = 1
                /\ (4500000 < a /\ a <= 6000000) => g = 2
                /\ (6000000 < a /\ a <= 10000000) => g = 3
                /\ (a <= 0 \/ a > 10000000) => g = -1
                /\ req[s].result.kind # "validation_error"
                /\ req[s].pc = "select" => req[s].result.kind = "none"

\* A request whose age is exactly 60 has been binned into bucket 2.
C2_Witness ==
    \E s \in Slots :
        /\ Derived(s)
        /\ req[s].data["age"] = 6000000
        /\ req[s].patient_data["age_group"] = 2

AllNumbers(body) == \A f \in FieldSet : body[f].t = "num"

\* C3: a body whose ten fields are all numbers is never refused, whatever
\* their values; and the row handed to the scaler has 12 elements, the first
\* ten the input fields in the order age, bmi, weight, height, systolic_bp,
\* family_history, physical_activity, diet_quality, location, smoking, then
\* bmi_category and age_group, each in -1..3.
C3_RowOfTwelve ==
    \A s \in Slots :
        /\ (AllNumbers(req[s].body) /\ req[s].pc = "done")
              => req[s].result.kind # "validation_error"
        /\ Selected(s) =>
            LET X == req[s].X_patient
                b == req[s].body
            IN  /\ Len(X) = 12
                /\ AllNumbers(b) =>
                      /\ X[1] = b["age"].v
                      /\ X[2] = b["bmi"].v
                      /\ X[3] = b["weight"].v
                      /\ X[4] = b["height"].v
                      /\ X[5] = b["systolic_bp"].v
                      /\ X[6] = b["family_history"].v
                      /\ X[7] = b["physical_activity"].v
                      /\ X[8] = b["diet_quality"].v
                      /\ X[9] = b["location"].v
                      /\ X[10] = b["smoking"].v
                /\ X[11] = req[s].patient_data["bmi_category"]
                /\ X[12] = req[s].patient_data["age_group"]
                /\ X[11] \in -1..3
                /\ X[12] \in -1..3

\* A row has been assembled for a patient with a negative height and a bmi
\* in no bin.
C3_Witness ==
    \E s \in Slots :
        /\ Selected(s)
        /\ req[s].X_patient[4] < 0
        /\ req[s].X_patient[11] = -1
        /\ req[s].X_patient[1] # req[s].X_patient[2]

\* C4: in every success response risk_level is the class index predict
\* returned, and risk_category is the entry at zero-based position risk_level
\* of the table of keys.
C4_CategoryAtLevel ==
    \A s \in Slots :
        req[s].result.kind = "success" =>
            /\ req[s].result.risk_level = req[s].prediction
            /\ req[s].result.risk_level \in 0..(Len(risk_category_keys) - 1)
            /\ req[s].result.risk_category
                  = risk_category_keys[req[s].result.risk_level + 1]

\* C5: in every success response the probabilities mapping has exactly the
\* five display labels as keys, and the value under the i-th label is the
\* i-th element of the probability vector.
C5_FiveLabels ==
    \A s \in Slots :
        req[s].result.kind = "success" =>
            /\ DOMAIN req[s].result.probabilities = DisplayLabels
            /\ Len(req[s].probability) = Len(risk_category_display)
            /\ \A i \in 1..Len(risk_category_display) :
                  req[s].result.probabilities[risk_category_display[i]]
                      = req[s].probability[i]

\* C6: a request whose predicted class index is outside 0..4 never ends in a
\* success response; it ends as an internal error.
C6_OutOfRangeIsError ==
    \A s \in Slots :
        (/\ req[s].pc = "done"
         /\ "respond" \in req[s].calls
         /\ req[s].prediction \notin 0..4)
            => req[s].result.kind = "internal_error"

Malformed(body) ==
    \E f \in FieldSet :
        \/ body[f].t = "absent"
        \/ body[f].t = "str" /\ ~IsNumericText(body[f].s)

\* C7: a request with a missing field, or a field that is not a number and
\* not numeric text, ends with a validation error once it is looked at, and
\* no stage of the pipeline (derive, select, transform, predict,
\* predict_proba, respond) has run for it; no request that ended with a
\* validation error has run any stage.
C7_NoInferenceOnMalformed ==
    \A s \in Slots :
        /\ (Malformed(req[s].body) /\ req[s].pc \notin {"idle", "received"})
              => /\ req[s].pc = "done"
                 /\ req[s].result.kind = "validation_error"
                 /\ req[s].calls = {}
        /\ req[s].result.kind = "validation_error" => req[s].calls = {}

\* A request whose age is the text "abc" has ended with a validation error.
C7_Witness ==
    \E s \in Slots :
        /\ req[s].pc = "done"
        /\ req[s].body["age"].t = "str"
        /\ ~IsNumericText(req[s].body["age"].s)
        /\ req[s].result.kind = "validation_error"

Loadable(a) == a.file = "ok" /\ BothKeys \subseteq a.bundle.keys

\* C8: a request is accepted only by a process that is serving with the
\* bundle loaded and both objects bound; with the file missing, corrupt, or
\* lacking 'best_model' or 'scaler' the process never serves and accepts no
\* request.
C8_FailFastAtBoot ==
    /\ ((accepted > 0 \/ \E s \in Slots : req[s].pc # "idle") =>
            /\ proc = "serving"
            /\ Loadable(artifact)
            /\ model_components = artifact.bundle
            /\ model = artifact.bundle.best_model
            /\ scaler = artifact.bundle.scaler)
    /\ (~Loadable(artifact) =>
            /\ proc \in {"load", "bind_model", "bind_scaler", "failed"}
            /\ accepted = 0)
    /\ (proc = "serving" => Loadable(artifact))

\* The import has failed on a bundle that has no 'scaler' key.
C8_Witness ==
    /\ proc = "failed"
    /\ artifact.file = "ok"
    /\ "scaler" \notin artifact.bundle.keys
    /\ accepted = 0

StageFails(a) ==
    \/ a.bundle.scaler.n_features # Len(feature_columns)
    \/ a.bundle.best_model.predict_raises
    \/ a.bundle.best_model.proba_raises

\* C9: a request that passed validation and whose transform, predict or
\* predict_proba failed ends as an internal error, neither a validation error
\* nor a success; the process is still serving with the same objects, and
\* every other finished request has the answer it would have had alone.
C9_StageFailureIsInternal ==
    \A s \in Slots :
        (/\ req[s].pc = "done"
         /\ ~Malformed(req[s].body)
         /\ StageFails(artifact))
            => /\ req[s].result.kind = "internal_error"
               /\ "respond" \notin req[s].calls
               /\ proc = "serving"
               /\ model = artifact.bundle.best_model
               /\ scaler = artifact.bundle.scaler
               /\ \A t \in Slots \ {s} :
                     req[t].pc = "done" =>
                        req[t].result
                            = PredictRisk(artifact.bundle.best_model,
                                          artifact.bundle.scaler, req[t].body)

\* A request has failed in predict_proba, and another request has finished
\* with a validation error beside it.
C9_Witness ==
    \E s \in Slots :
        /\ req[s].pc = "done"
        /\ req[s].result.kind = "internal_error"
        /\ req[s].calls = {"derive", "select", "transform", "predict", "predict_proba"}
        /\ \E t \in Slots \ {s} : req[t].pc = "done" /\ req[t].result.kind = "validation_error"

\* C10: every finished request carries the answer its body gets when it is
\* processed alone right after startup, whatever else is in flight; and the
\* loaded bundle, classifier and scaler of a serving process are those of the
\* artifact.
C10_AnswerAsAlone ==
    /\ \A s \in Slots :
          req[s].pc = "done" =>
              req[s].result
                  = PredictRisk(artifact.bundle.best_model, artifact.bundle.scaler,
                                req[s].body)
    /\ proc = "serving" =>
          /\ model_components = artifact.bundle
          /\ model = artifact.bundle.best_model
          /\ scaler = artifact.bundle.scaler

\* Two requests with different bodies have both finished with different
\* success responses, the third request of the run among them.
C10_Witness ==
    /\ accepted = 3
    /\ req[1].pc = "done"
    /\ req[2].pc = "done"
    /\ req[1].result.kind = "success"
    /\ req[2].result.kind = "success"
    /\ req[1].body # req[2].body
    /\ req[1].result # req[2].result

====
